---- MODULE Spec2Model ----
(***************************************************************************)
(* Model of pychnl's StreamURL client (src/pychnl/streamurl/streamurl.py). *)
(*                                                                         *)
(* Text is modelled as a sequence of atoms.  Channel labels are sequences  *)
(* of characters; URLs, MIME types and page markup are sequences of        *)
(* tokens, each token standing for a fixed piece of text.  Python's        *)
(* str.strip, str.lower, str.endswith and the `in` substring test are      *)
(* operators on these sequences.                                           *)
(***************************************************************************)
EXTENDS Integers, Sequences, FiniteSets, TLC

VARIABLES
    driver,     \* self.driver: "None" or "live"
    launched,   \* number of browsers webdriver.Chrome() has started
    quits,      \* number of driver.quit() calls made
    browsers,   \* number of live browser processes
    scope,      \* position of the caller's with-block: "none", "in", "out"
    prev,       \* [op, quit]: the operation before the last one
    env,        \* what the browser showed to the last operation
    out         \* outcome of the last operation

vars == <<driver, launched, quits, browsers, scope, prev, env, out>>

None == "None"

----------------------------------------------------------------------------
(* Bounds *)

MaxLabelLen == 2   \* longest channel label / channel name, in characters
MaxItems == 1      \* most entries in the channel listing
MaxSources == 2    \* most <source> children of the <video> element
MaxLaunch == 2     \* most browsers launched in one run of the client

----------------------------------------------------------------------------
(* Text *)

SeqsUpTo(S, n) == UNION {[1..k -> S] : k \in 0..n}

Chars == {" ", "a", "A"}

IsSpace(c) == c = " "

LowerChar(c) == IF c = "A" THEN "a" ELSE c

\* str.lower on a sequence of characters
Lower(s) == [i \in 1..Len(s) |-> LowerChar(s[i])]

\* str.strip: drop leading and trailing whitespace
Strip(s) ==
    LET nonsp == {i \in 1..Len(s) : ~IsSpace(s[i])}
    IN  IF nonsp = {} THEN <<>>
        ELSE LET lo == CHOOSE i \in nonsp : \A j \in nonsp : i <= j
                 hi == CHOOSE i \in nonsp : \A j \in nonsp : j <= i
             IN  SubSeq(s, lo, hi)

Labels == SeqsUpTo(Chars, MaxLabelLen)

\* A listing entry: whether it holds an h1[channel-name] heading, and the
\* heading's text.
NoHeading == [heading |-> FALSE, text |-> <<>>]

Items == {[heading |-> TRUE, text |-> t] : t \in Labels} \cup {NoHeading}

Listings == SeqsUpTo(Items, MaxItems)

----------------------------------------------------------------------------
(* _find_channel_button *)

\* line 73: the per-entry comparison
LabelMatches(text, channel_name) == Lower(Strip(text)) = Lower(channel_name)

MatchingItems(items, channel_name) ==
    {i \in 1..Len(items) :
        items[i].heading /\ LabelMatches(items[i].text, channel_name)}

\* The wait of lines 62-64 times out when no "item" element is present.
ListingTimedOut(items) == Len(items) = 0

\* FindChannelButton with the timeout diagnostic of line 81 left out
FindChannelButtonSilent(items, channel_name) ==
    LET m == MatchingItems(items, channel_name)
    IN  [item |-> IF m = {} THEN 0 ELSE CHOOSE i \in m : \A j \in m : i <= j,
         timeoutLogged |-> FALSE]

\* Result of the lookup: the index of the returned entry (0 for None) and
\* whether the timeout diagnostic of line 81 was printed.
FindChannelButton(items, channel_name) ==
    IF ListingTimedOut(items)
    THEN [item |-> 0, timeoutLogged |-> TRUE]
    ELSE LET m == MatchingItems(items, channel_name)
         IN  IF m = {}
             THEN [item |-> 0, timeoutLogged |-> FALSE]
             ELSE [item |-> CHOOSE i \in m : \A j \in m : i <= j,
                   timeoutLogged |-> FALSE]

----------------------------------------------------------------------------
(* URLs, MIME types and markup as token sequences *)

H == "https://"
D == "delta.webchnl.live"

\* Whether the text of token tok contains the text needle.
TokHas(tok, needle) ==
    \/ tok = needle
    \/ needle = "m3u8" /\ tok = ".m3u8"

\* Python's `needle in s`
Contains(s, needle) == \E i \in 1..Len(s) : TokHas(s[i], needle)

\* Python's s.endswith(suffix)
EndsWith(s, suffix) == Len(s) > 0 /\ s[Len(s)] = suffix

LowerTok(t) ==
    CASE t = "application/x-mpegURL" -> "application/x-mpegurl"
      [] t = "VIDEO/" -> "video/"
      [] t = "MP4" -> "mp4"
      [] OTHER -> t

\* str.lower on a token sequence
LowerT(s) == [i \in 1..Len(s) |-> LowerTok(s[i])]

\* An attribute that is missing or empty is the empty sequence: both are
\* falsy in Python, and the code only tests truthiness.
Absent == <<>>

Truthy(s) == s # Absent

uMemfs == <<H, D, "/memfs/", "a", ".m3u8">>
uMemfsQ == <<H, D, "/memfs/", "a", ".m3u8", "?t">>
uCdnM3u8 == <<H, "cdn", "/", "a", ".m3u8">>
uCdnM3u8Q == <<H, "cdn", "/", "a", ".m3u8", "?t">>
uDelta == <<H, D, "/", "a">>
uSpaced == <<H, D, "/", "a", " ", "b", ".m3u8">>
uMp4 == <<H, "cdn", "/", "a", ".mp4">>
uWebm == <<H, "cdn", "/", "a", ".webm">>
uPlain == <<H, "cdn", "/", "a">>
uBlob == <<"blob:", H, "webchnl.live", "/", "a">>
uPoster == <<H, "cdn", "/", "p.jpg">>
uPoster2 == <<H, "cdn", "/", "q.jpg">>

tMpegUrl == <<"application/x-mpegURL">>
tApple == <<"application/vnd.apple.mpegurl">>
tMp4 == <<"video/", "mp4">>
tMp4Upper == <<"VIDEO/", "MP4">>
tWebm == <<"video/", "webm">>

SourceUrls == {Absent, uMemfsQ, uCdnM3u8, uCdnM3u8Q, uMp4, uWebm}

SourceTypes == {Absent, tMpegUrl, tApple, tMp4, tMp4Upper, tWebm}

----------------------------------------------------------------------------
(* _extract_stream_urls: the loop over <source> children, lines 132-178 *)

\* lines 147-162
IsM3u8(src, source_type) ==
    \/ /\ Truthy(source_type)
       /\ \/ Contains(LowerT(source_type), "application/x-mpegurl")
          \/ Contains(LowerT(source_type), "application/vnd.apple.mpegurl")
          \/ Contains(LowerT(source_type), "m3u8")
    \/ EndsWith(src, ".m3u8")
    \/ Contains(src, D) /\ Contains(src, ".m3u8")

\* Classify with the declared type consulted before any URL test
ClassifyTypeFirst(src, source_type) ==
    IF /\ Truthy(source_type)
       /\ \/ Contains(LowerT(source_type), "application/x-mpegurl")
          \/ Contains(LowerT(source_type), "application/vnd.apple.mpegurl")
          \/ Contains(LowerT(source_type), "m3u8")
    THEN "m3u8"
    ELSE IF Truthy(source_type) /\ Contains(source_type, "mp4") THEN "mp4"
    ELSE IF Truthy(source_type) /\ Contains(source_type, "webm") THEN "webm"
    ELSE IF EndsWith(src, ".m3u8") THEN "m3u8"
    ELSE IF EndsWith(src, ".mp4") THEN "mp4"
    ELSE IF EndsWith(src, ".webm") THEN "webm"
    ELSE IF Contains(src, D) /\ Contains(src, ".m3u8") THEN "m3u8"
    ELSE "none"

\* lines 164-178: the format tag a source is stored under, "none" if no
\* branch applies
Classify(src, source_type) ==
    IF IsM3u8(src, source_type) THEN "m3u8"
    ELSE IF Truthy(source_type) /\ Contains(source_type, "mp4") THEN "mp4"
    ELSE IF Truthy(source_type) /\ Contains(source_type, "webm") THEN "webm"
    ELSE IF EndsWith(src, ".mp4") THEN "mp4"
    ELSE IF EndsWith(src, ".webm") THEN "webm"
    ELSE "none"

\* d[key] = value on a dict modelled as a function
DictSet(d, key, value) ==
    [k \in DOMAIN d \cup {key} |-> IF k = key THEN value ELSE d[k]]

EmptyDict == [k \in {} |-> Absent]

\* SourceStep keeping the first URL stored under a tag
SourceStepFirstWins(info, s) ==
    IF Truthy(s.src)
    THEN LET tag == Classify(s.src, s.type)
         IN  [info EXCEPT
                !.sources = Append(@, [url |-> s.src, type |-> s.type]),
                !.urls = IF tag = "none" \/ tag \in DOMAIN @ THEN @
                         ELSE DictSet(@, tag, s.src)]
    ELSE info

\* One iteration of the loop body for source element s
SourceStep(info, s) ==
    IF Truthy(s.src)
    THEN LET tag == Classify(s.src, s.type)
         IN  [info EXCEPT
                !.sources = Append(@, [url |-> s.src, type |-> s.type]),
                !.urls = IF tag = "none" THEN @ ELSE DictSet(@, tag, s.src)]
    ELSE info

RECURSIVE SourcesLoop(_, _, _)
SourcesLoop(info, source_elements, i) ==
    IF i > Len(source_elements) THEN info
    ELSE SourcesLoop(SourceStep(info, source_elements[i]), source_elements, i + 1)

----------------------------------------------------------------------------
(* The page the browser shows after the click *)

\* Markup is a sequence of fragments; a fragment is a piece of text with no
\* quote character inside, and q tells how it is delimited in the page:
\* "dq" between double quotes, "sq" between single quotes, "raw" otherwise.
Frag(q, toks) == [q |-> q, toks |-> toks]

AttrFrags(urls) == [i \in 1..Len(urls) |-> Frag("dq", urls[i])]

SrcsOf(source_elements) ==
    [i \in 1..Len(source_elements) |-> source_elements[i].src]

RECURSIVE NonEmpty(_)
NonEmpty(ss) ==
    IF ss = <<>> THEN <<>>
    ELSE IF Truthy(Head(ss)) THEN <<Head(ss)>> \o NonEmpty(Tail(ss))
    ELSE NonEmpty(Tail(ss))

\* driver.find_elements(By.CSS_SELECTOR, "source"): every <source> of the
\* document, the <video>'s children first.
AllSources(page) ==
    IF page.video THEN SrcsOf(page.sources) \o page.others ELSE page.others

\* driver.page_source: the serialised document.  Every src attribute of
\* the DOM appears in it as a double-quoted string, followed by the
\* document's inline text.
PageSource(page) ==
    AttrFrags(NonEmpty(
        (IF page.video THEN <<page.blob>> ELSE <<>>) \o AllSources(page)
        \o page.srcElems))
    \o page.inline

IsDelim(tok) == tok = " "

MinOf(S) == CHOOSE x \in S : \A y \in S : x <= y
MaxOf(S) == CHOOSE x \in S : \A y \in S : y <= x

\* The first non-empty element of a sequence of texts, or Absent
FirstTruthy(ss) ==
    LET hits == {i \in 1..Len(ss) : Truthy(ss[i])}
    IN  IF hits = {} THEN Absent ELSE ss[MinOf(hits)]

\* Python's `a or b` on texts
OrElse(a, b) == IF Truthy(a) THEN a ELSE b

\* The last index k >= i such that toks[i..k] holds no delimiter
RunEnd(toks, i) ==
    LET ends == {k \in i..Len(toks) : \A j \in i..k : ~IsDelim(toks[j])}
    IN  IF ends = {} THEN i - 1 ELSE MaxOf(ends)

\* The last index in lo..hi holding the token .m3u8, or 0
LastM3u8(toks, lo, hi) ==
    LET js == {j \in lo..hi : toks[j] = ".m3u8"}
    IN  IF js = {} THEN 0 ELSE MaxOf(js)

\* toks[i..j], or Absent when j = 0
CutAt(toks, i, j) == IF j = 0 THEN Absent ELSE SubSeq(toks, i, j)

\* patterns[0], line 247, anchored at token i: the match, or Absent
Pattern1At(toks, i) ==
    IF /\ i + 3 <= Len(toks)
       /\ toks[i] = H /\ toks[i + 1] = D /\ toks[i + 2] = "/memfs/"
    THEN CutAt(toks, i, LastM3u8(toks, i + 4, RunEnd(toks, i + 3)))
    ELSE Absent

\* patterns[1], line 248, anchored at token i
Pattern2At(toks, i) ==
    IF /\ i + 1 <= Len(toks) /\ toks[i] \in {H, "http://"}
       /\ LastM3u8(toks, i + 2, RunEnd(toks, i + 1)) # 0
    THEN SubSeq(toks, i, RunEnd(toks, i + 1))
    ELSE Absent

\* patterns[2] and patterns[3], lines 249-250: a whole quoted string
QuotedPattern(f, q) ==
    IF /\ f.q = q
       /\ Len(f.toks) >= 4
       /\ f.toks[1] = H /\ f.toks[2] = D
       /\ f.toks[3] \in {"/", "/memfs/"}
       /\ f.toks[Len(f.toks)] = ".m3u8"
       /\ f.toks[3] = "/" => Len(f.toks) >= 5
    THEN f.toks
    ELSE Absent

\* The first match of pattern n (1..4) inside fragment f, or Absent
MatchInFrag(f, n) ==
    CASE n = 1 -> FirstTruthy([i \in 1..Len(f.toks) |-> Pattern1At(f.toks, i)])
      [] n = 2 -> FirstTruthy([i \in 1..Len(f.toks) |-> Pattern2At(f.toks, i)])
      [] n = 3 -> QuotedPattern(f, "dq")
      [] n = 4 -> QuotedPattern(f, "sq")

\* re.findall(pattern, page_source)[0] (lines 254-259), or Absent
FirstMatch(markup, n) ==
    FirstTruthy([i \in 1..Len(markup) |-> MatchInFrag(markup[i], n)])

NumPatterns == 4

\* lines 253-261: the first pattern, in list order, that matches at all
PatternSearch(markup) ==
    FirstTruthy([n \in 1..NumPatterns |-> FirstMatch(markup, n)])

\* The first element of ss passing the source test shared by the in-page
\* script (line 269) and the broader search (line 194)
FirstStreamLike(ss) ==
    FirstTruthy([i \in 1..Len(ss) |->
        IF Contains(ss[i], ".m3u8") \/ Contains(ss[i], D) THEN ss[i] ELSE Absent])

\* Every element of the document with a src attribute, in document order
SrcElements(page) ==
    (IF page.video THEN <<page.blob>> ELSE <<>>)
    \o AllSources(page) \o page.srcElems

\* line 276: the first element whose src holds m3u8
FirstM3u8Src(ss) ==
    FirstTruthy([i \in 1..Len(ss) |->
        IF Contains(ss[i], "m3u8") THEN ss[i] ELSE Absent])

\* lines 265-286: the in-page script
PageScript(page) ==
    OrElse(FirstStreamLike(AllSources(page)), FirstM3u8Src(SrcElements(page)))

\* lines 253-295 once the markup was read: url is the first pattern match
\* when there is one, and only otherwise is the in-page script executed
ScriptUnless(url, page) ==
    IF Truthy(url) THEN [url |-> url, script |-> FALSE]
    ELSE [url |-> IF page.fault = "script" THEN Absent ELSE PageScript(page),
          script |-> TRUE]

\* The body of _extract_m3u8_from_page, lines 241-299: the URL it returns
\* and whether it executed the in-page script.  page.fault names the
\* browser call that raises, if any.
PageSearch(page) ==
    IF page.fault = "page_source" THEN [url |-> Absent, script |-> FALSE]
    ELSE ScriptUnless(PatternSearch(PageSource(page)), page)

\* _extract_m3u8_from_page, lines 241-299
ExtractM3u8FromPage(page) == PageSearch(page).url

----------------------------------------------------------------------------
(* _extract_stream_urls, lines 91-232 *)

\* lines 97-103; metadata['dimensions'] is kept as its own field
NewStreamInfo ==
    [urls |-> EmptyDict, poster |-> Absent, blob_url |-> Absent,
     sources |-> <<>>, metadata |-> EmptyDict, dimensions |-> Absent]

\* What the extraction hands back: `present` is FALSE for None.
Some(info) == [present |-> TRUE, info |-> info]
Nothing == [present |-> FALSE, info |-> NewStreamInfo]

\* lines 109-111: poster of the player container
ContainerStep(info, page) ==
    IF Truthy(page.cposter) THEN [info EXCEPT !.poster = page.cposter] ELSE info

\* lines 117-119: blob reference of the <video>
BlobStep(info, page) ==
    IF Truthy(page.blob) THEN [info EXCEPT !.blob_url = page.blob] ELSE info

\* lines 122-125: fallback poster of the <video>
VideoPosterStep(info, page) ==
    IF ~Truthy(info.poster) /\ Truthy(page.vposter)
    THEN [info EXCEPT !.poster = page.vposter]
    ELSE info

\* stream_info['urls']['m3u8'] = url, when url is truthy
InstallM3u8(info, url) ==
    IF Truthy(url) THEN [info EXCEPT !.urls = DictSet(@, "m3u8", url)] ELSE info

\* FallbackStep without the test of line 181
FallbackStepOverwrites(info, page) ==
    InstallM3u8(info, ExtractM3u8FromPage(page))

\* lines 181-186: the page-text fallback
FallbackStep(info, page) ==
    IF "m3u8" \notin DOMAIN info.urls
    THEN InstallM3u8(info, ExtractM3u8FromPage(page))
    ELSE info

\* lines 189-197: the broader search over every <source> of the document
BroadSearchStep(info, page) ==
    IF "m3u8" \notin DOMAIN info.urls
    THEN InstallM3u8(info, FirstStreamLike(AllSources(page)))
    ELSE info

AfterContainer(page) == ContainerStep(NewStreamInfo, page)

AfterVideo(page) == VideoPosterStep(BlobStep(AfterContainer(page), page), page)

\* lines 128-178
AfterSources(page) == SourcesLoop(AfterVideo(page), page.sources, 1)

AfterFallback(page) == FallbackStep(AfterSources(page), page)

AfterBroadSearch(page) == BroadSearchStep(AfterFallback(page), page)

VideoAttrs == {"preload", "autoplay", "controls", "loop", "muted"}

\* lines 200-204: playback attributes
MetadataStep(info, page) ==
    [info EXCEPT !.metadata = [a \in DOMAIN page.attrs \cap VideoAttrs |->
                                  page.attrs[a]]]

\* lines 207-216: the dimensions, whose read errors are swallowed
DimensionsStep(info, page) ==
    IF page.fault # "dims" /\ Truthy(page.dims.w) /\ Truthy(page.dims.h)
    THEN [info EXCEPT !.dimensions = <<page.dims.w, page.dims.h>>]
    ELSE info

AfterMetadata(page) ==
    DimensionsStep(MetadataStep(AfterBroadSearch(page), page), page)

\* HasUsefulUrls without the test of stream_info['sources']
HasUsefulUrlsNoSources(info) ==
    info.urls # EmptyDict \/ Truthy(info.blob_url)

\* HasUsefulUrls counting a poster as a useful URL
HasUsefulUrlsOrPoster(info) ==
    \/ info.urls # EmptyDict \/ Truthy(info.blob_url) \/ info.sources # <<>>
    \/ Truthy(info.poster)

\* lines 219-222
HasUsefulUrls(info) ==
    info.urls # EmptyDict \/ Truthy(info.blob_url) \/ info.sources # <<>>

\* One run of the method body.  page.fault names the browser call that
\* raises: "timeout" the wait for the container, "session" the browser
\* itself, "source" an attribute read on the last <source>, "attrs" an
\* attribute read on the <video> at line 202; "page_source", "script" and
\* "dims" raise inside the inner try blocks.  page.video = FALSE is
\* NoSuchElementException at line 114.
\*   reached:   the final check of line 219 was reached
\*   looped:    the loop over the <source> children ran to its end
\*   loopUrls:  stream_info['urls'] when the loop ended
\*   collected: stream_info when the body returned or raised
ExtractRun(page) ==
    IF page.fault \in {"timeout", "session"}
    THEN [reached |-> FALSE, looped |-> FALSE, loopUrls |-> EmptyDict,
          collected |-> NewStreamInfo]
    ELSE IF ~page.video
    THEN [reached |-> FALSE, looped |-> FALSE, loopUrls |-> EmptyDict,
          collected |-> AfterContainer(page)]
    ELSE IF page.fault = "source" /\ page.sources # <<>>
    THEN [reached |-> FALSE, looped |-> FALSE, loopUrls |-> EmptyDict,
          collected |-> SourcesLoop(AfterVideo(page),
                           SubSeq(page.sources, 1, Len(page.sources) - 1), 1)]
    ELSE IF page.fault = "attrs"
    THEN [reached |-> FALSE, looped |-> TRUE,
          loopUrls |-> AfterSources(page).urls,
          collected |-> AfterBroadSearch(page)]
    ELSE [reached |-> TRUE, looped |-> TRUE,
          loopUrls |-> AfterSources(page).urls,
          collected |-> AfterMetadata(page)]

\* lines 219-232 applied to a run
ResultOf(run) ==
    IF run.reached /\ HasUsefulUrls(run.collected)
    THEN Some(run.collected)
    ELSE Nothing

\* The whole method
ExtractStreamUrls(page) == ResultOf(ExtractRun(page))

----------------------------------------------------------------------------
(* get_stream_url: the flattened view, lines 366-381 *)

\* result.update(stream_info['urls'])
DictUpdate(d, e) ==
    [k \in DOMAIN d \cup DOMAIN e |-> IF k \in DOMAIN e THEN e[k] ELSE d[k]]

\* result[key] = value, when value is truthy
SetIfTruthy(d, key, value) == IF Truthy(value) THEN DictSet(d, key, value) ELSE d

\* MapOrNone handing back the mapping even when it is empty
MapAlways(result) == [present |-> TRUE, map |-> result]

\* line 379
MapOrNone(result) ==
    IF result # EmptyDict
    THEN [present |-> TRUE, map |-> result]
    ELSE [present |-> FALSE, map |-> EmptyDict]

LegacyView(stream) ==
    IF stream.present
    THEN MapOrNone(
            SetIfTruthy(
                SetIfTruthy(DictUpdate(EmptyDict, stream.info.urls),
                            "blob_url", stream.info.blob_url),
                "poster_url", stream.info.poster))
    ELSE [present |-> FALSE, map |-> EmptyDict]

----------------------------------------------------------------------------
(* The client: browser lifetime and the public methods *)

\* The client's hold on browsers: self.driver and the processes behind it
Client == [driver |-> driver, launched |-> launched, quits |-> quits,
           browsers |-> browsers]

\* _setup_driver, lines 30-48.  fault "chrome" raises at line 45 or 47,
\* before self.driver is assigned; "stealth" raises at line 48, after the
\* browser was started and assigned.
SetupDriver(c, fault) ==
    IF fault = "chrome"
    THEN [c |-> c, raised |-> TRUE]
    ELSE [c |-> [c EXCEPT !.driver = "live", !.launched = @ + 1,
                          !.browsers = @ + 1],
          raised |-> fault = "stealth"]

\* lines 313-314 and 392-393
EnsureDriver(c, fault) ==
    IF c.driver = None THEN SetupDriver(c, fault)
    ELSE [c |-> c, raised |-> FALSE]

NoStream == [present |-> FALSE, info |-> NewStreamInfo, channel_name |-> <<>>]

\* lines 338-348: the record get_stream_info returns for an extraction
Stamp(stream, channel_name) ==
    IF stream.present
    THEN [present |-> TRUE, info |-> stream.info, channel_name |-> channel_name]
    ELSE NoStream

\* The body leaves by an exception.  found is the entry the lookup
\* returned and clicked the entry that was clicked, 0 for none.
Raised(c, events) ==
    [c |-> c, raised |-> TRUE, faulted |-> TRUE, ret |-> NoStream,
     events |-> events, found |-> 0, clicked |-> 0]

\* The body returns ret; faulted tells whether a browser failure was met
Returned(c, ret, faulted, events) ==
    [c |-> c, raised |-> FALSE, faulted |-> faulted, ret |-> ret,
     events |-> events, found |-> 0, clicked |-> 0]

\* lines 338-348
StampStep(c, stream, channel_name, faulted, events) ==
    Returned(c, Stamp(stream, channel_name), faulted,
             IF stream.present THEN events \o <<"stamp">> ELSE events)

\* line 329: channel_button.click() on the entry the lookup returned
Clicked(r, channel_button) ==
    [r EXCEPT !.found = channel_button, !.clicked = channel_button]

\* AfterLookup without the test of line 324
AfterLookupClicksAnyway(c, channel_button, channel_name, page, fault, e) ==
    IF fault = "click"
    THEN Clicked(Raised(c, e \o <<"click">>), channel_button)
    ELSE Clicked(StampStep(c, ExtractStreamUrls(page), channel_name,
                           page.fault = "session",
                           e \o <<"click", "sleep", "extract">>),
                 channel_button)

\* lines 324-348: channel_button is what the lookup returned, 0 for None
AfterLookup(c, channel_button, channel_name, page, fault, e) ==
    IF channel_button = 0 THEN Returned(c, NoStream, FALSE, e)
    ELSE IF fault = "click"
    THEN Clicked(Raised(c, e \o <<"click">>), channel_button)
    ELSE Clicked(StampStep(c, ExtractStreamUrls(page), channel_name,
                           page.fault = "session",
                           e \o <<"click", "sleep", "extract">>),
                 channel_button)

\* lines 316-348, with the driver set up.  fault names the browser call
\* that raises; events lists the steps taken.
WithDriver(c, channel_name, items, page, fault, e0) ==
    IF fault = "get" THEN Raised(c, e0 \o <<"navigate">>)
    ELSE IF fault = "lookup" THEN Raised(c, e0 \o <<"navigate", "lookup">>)
    ELSE AfterLookup(c, FindChannelButton(items, channel_name).item,
                     channel_name, page, fault,
                     e0 \o <<"navigate", "lookup">>)

\* lines 313-314 followed by the rest of the body
AfterSetup(s, channel_name, items, page, fault, e0) ==
    IF s.raised THEN Raised(s.c, e0)
    ELSE WithDriver(s.c, channel_name, items, page, fault, e0)

\* The try body of get_stream_info, lines 312-348
GetStreamInfoBody(c, channel_name, items, page, fault) ==
    AfterSetup(EnsureDriver(c, fault), channel_name, items, page, fault,
               IF c.driver = None THEN <<"launch">> ELSE <<>>)

\* An except clause that lets the exception through
NoExcept(r) == r

\* lines 350-352: except Exception
ExceptException(r) ==
    IF r.raised THEN [r EXCEPT !.raised = FALSE, !.ret = NoStream] ELSE r

\* get_stream_info, lines 311-352
GetStreamInfoCall(c, channel_name, items, page, fault) ==
    ExceptException(GetStreamInfoBody(c, channel_name, items, page, fault))

RECURSIVE CollectChannels(_)
\* lines 405-412
CollectChannels(items) ==
    IF items = <<>> THEN <<>>
    ELSE IF Head(items).heading
    THEN <<Strip(Head(items).text)>> \o CollectChannels(Tail(items))
    ELSE CollectChannels(Tail(items))

\* lines 396-414, after the driver set-up attempt s
ChannelsAfterSetup(s, items, fault) ==
    IF s.raised \/ fault \in {"get", "lookup"}
    THEN [c |-> s.c, raised |-> TRUE, faulted |-> TRUE, channels |-> <<>>]
    ELSE IF ListingTimedOut(items)
    THEN [c |-> s.c, raised |-> TRUE, faulted |-> FALSE, channels |-> <<>>]
    ELSE [c |-> s.c, raised |-> FALSE, faulted |-> FALSE,
          channels |-> CollectChannels(items)]

\* The try body of get_available_channels, lines 391-414
GetAvailableChannelsBody(c, items, fault) ==
    ChannelsAfterSetup(EnsureDriver(c, fault), items, fault)

\* lines 416-418: except Exception
ExceptExceptionList(r) ==
    IF r.raised THEN [r EXCEPT !.raised = FALSE, !.channels = <<>>] ELSE r

\* get_available_channels, lines 383-418
GetAvailableChannelsCall(c, items, fault) ==
    ExceptExceptionList(GetAvailableChannelsBody(c, items, fault))

\* close with self.driver left set after the quit
CloseClientKeepsDriver(c) ==
    IF c.driver # None
    THEN [c |-> [c EXCEPT !.quits = @ + 1,
                          !.browsers = IF @ > 0 THEN @ - 1 ELSE 0],
          quit |-> 1]
    ELSE [c |-> c, quit |-> 0]

\* close dropping self.driver without quitting the browser
CloseClientNoQuit(c) == [c |-> [c EXCEPT !.driver = None], quit |-> 0]

\* close, lines 420-424; quit |-> the number of driver.quit() calls made
CloseClient(c) ==
    IF c.driver # None
    THEN [c |-> [c EXCEPT !.driver = None, !.quits = @ + 1, !.browsers = @ - 1],
          quit |-> 1]
    ELSE [c |-> c, quit |-> 0]

----------------------------------------------------------------------------
(* Inputs *)

BasePage ==
    [fault |-> "none", cposter |-> Absent, video |-> TRUE, blob |-> Absent,
     vposter |-> Absent, sources |-> <<>>, others |-> <<>>,
     srcElems |-> <<>>, inline |-> <<>>, attrs |-> EmptyDict,
     dims |-> [w |-> Absent, h |-> Absent]]

SourceElems == [src : SourceUrls, type : SourceTypes]

\* Pages that vary the <source> children over every URL and type
ClassifyPages ==
    {[BasePage EXCEPT !.sources = ss] : ss \in SeqsUpTo(SourceElems, MaxSources)}

PageFaults ==
    {"none", "timeout", "session", "source", "attrs", "dims",
     "page_source", "script"}

\* A raising browser call, or a document without a <video> element
FaultCombos == {<<f, TRUE>> : f \in PageFaults} \cup {<<"none", FALSE>>}

Posters == {<<Absent, Absent>>, <<Absent, uPoster2>>, <<uPoster, uPoster2>>}

FewSourceElems ==
    {[src |-> uMemfs, type |-> Absent], [src |-> uPlain, type |-> Absent]}

uM3u8Dir == <<H, "cdn", "/", "m3u8", "/", "a">>

InlineTexts ==
    {<<>>,
     <<Frag("sq", uSpaced)>>,
     <<Frag("raw", <<"http://", "cdn", "/", "a", ".m3u8", "?t">>)>>,
     <<Frag("raw", uCdnM3u8Q), Frag("dq", uMemfsQ)>>}

Metas ==
    {[attrs |-> EmptyDict, dims |-> [w |-> Absent, h |-> Absent]],
     [attrs |-> [a \in {"controls", "id"} |-> "true"],
      dims |-> [w |-> <<"640">>, h |-> <<"360">>]]}

\* Pages that vary every part of the document the extraction reads
ExtractPages ==
    {[fault |-> f, cposter |-> cp, video |-> v, blob |-> b, vposter |-> vp,
      sources |-> ss, others |-> os, srcElems |-> es, inline |-> it,
      attrs |-> m.attrs, dims |-> m.dims] :
        <<f, v>> \in FaultCombos, <<cp, vp>> \in Posters,
        b \in {Absent, uBlob},
        ss \in SeqsUpTo(FewSourceElems, MaxSources),
        os \in {<<>>, <<uPlain>>, <<uDelta>>, <<uPlain, uCdnM3u8>>},
        es \in {<<>>, <<uM3u8Dir>>},
        it \in InlineTexts, m \in Metas}

Idle == [op |-> "idle", quit |-> 0, raised |-> FALSE]

NoPrev == [op |-> "idle", quit |-> 0, raised |-> FALSE]

----------------------------------------------------------------------------
(* The lookup on its own *)

InitFind ==
    /\ driver = "live" /\ launched = 1 /\ quits = 0 /\ browsers = 1
    /\ scope = "none" /\ prev = NoPrev /\ out = Idle
    /\ env \in [items : Listings, name : Labels]

FindStep ==
    /\ out.op = "idle"
    /\ LET r == FindChannelButton(env.items, env.name)
       IN  out' = [op |-> "_find_channel_button", quit |-> 0,
                   raised |-> FALSE, item |-> r.item,
                   timeoutLogged |-> r.timeoutLogged]
    /\ UNCHANGED <<driver, launched, quits, browsers, scope, prev, env>>

NextFind == FindStep

SpecFind == InitFind /\ [][NextFind]_vars

----------------------------------------------------------------------------
(* The extraction on its own *)

InitExtract ==
    /\ driver = "live" /\ launched = 1 /\ quits = 0 /\ browsers = 1
    /\ scope = "none" /\ prev = NoPrev /\ out = Idle
    /\ env \in [page : ClassifyPages \cup ExtractPages]

ExtractStep ==
    /\ out.op = "idle"
    /\ out' = [op |-> "_extract_stream_urls", quit |-> 0, raised |-> FALSE,
                ret |-> ExtractStreamUrls(env.page),
                run |-> ExtractRun(env.page)]
    /\ UNCHANGED <<driver, launched, quits, browsers, scope, prev, env>>

NextExtract == ExtractStep

SpecExtract == InitExtract /\ [][NextExtract]_vars

----------------------------------------------------------------------------
(* The client as its caller drives it *)

ClientNames == {<<"A">>, <<" ", "a">>}

ClientListings ==
    {<<>>,
     <<[heading |-> TRUE, text |-> <<"A">>]>>,
     <<NoHeading, [heading |-> TRUE, text |-> <<" ", "a">>]>>}

SessionFaults == {"none", "chrome", "stealth", "get", "lookup", "click"}

ClientPages ==
    {BasePage,
     [BasePage EXCEPT !.fault = "timeout", !.cposter = uPoster],
     [BasePage EXCEPT !.fault = "session", !.blob = uBlob],
     [BasePage EXCEPT !.sources = <<[src |-> uPlain, type |-> Absent]>>],
     [BasePage EXCEPT !.sources = <<[src |-> uMemfs, type |-> tMpegUrl]>>,
                      !.vposter = uPoster2],
     [BasePage EXCEPT !.sources = <<[src |-> uMp4, type |-> tMp4],
                                    [src |-> uWebm, type |-> Absent]>>,
                      !.blob = uBlob, !.cposter = uPoster,
                      !.inline = <<Frag("raw", uMemfsQ)>>]}

SetClient(c) ==
    /\ driver' = c.driver
    /\ launched' = c.launched
    /\ quits' = c.quits
    /\ browsers' = c.browsers

MayLaunch == driver # None \/ launched < MaxLaunch

Remember == prev' = [op |-> out.op, quit |-> out.quit, raised |-> out.raised]

Init ==
    /\ driver = None /\ launched = 0 /\ quits = 0 /\ browsers = 0
    /\ scope = "none" /\ prev = NoPrev /\ out = Idle
    /\ env = [client |-> TRUE]

\* __enter__, lines 426-428
Enter ==
    /\ scope = "none"
    /\ scope' = "in"
    /\ out' = [op |-> "__enter__", quit |-> 0, raised |-> FALSE]
    /\ Remember
    /\ UNCHANGED <<driver, launched, quits, browsers, env>>

\* What the caller of get_stream_info observes of the call r
StreamInfoOut(r, channel_name) ==
    [op |-> "get_stream_info", quit |-> 0, raised |-> r.raised,
     faulted |-> r.faulted, channel_name |-> channel_name, ret |-> r.ret,
     events |-> r.events, found |-> r.found, clicked |-> r.clicked]

\* get_stream_url, lines 364-381, applied to the get_stream_info call r
StreamUrlOut(r) ==
    [op |-> "get_stream_url", quit |-> 0, raised |-> r.raised,
     faulted |-> r.faulted, stream |-> r.ret,
     ret |-> IF r.raised THEN [present |-> FALSE, map |-> EmptyDict]
             ELSE LegacyView(r.ret)]

ChannelsOut(r) ==
    [op |-> "get_available_channels", quit |-> 0, raised |-> r.raised,
     faulted |-> r.faulted, channels |-> r.channels]

CloseOut(r) == [op |-> "close", quit |-> r.quit, raised |-> FALSE]

ExitOut(r, exc) ==
    [op |-> "__exit__", quit |-> r.quit, raised |-> FALSE, exc |-> exc]

\* The call r takes effect on the client, and o is what its caller observes
Finish(r, o) == SetClient(r.c) /\ out' = o

GetStreamInfo ==
    /\ MayLaunch
    /\ \E channel_name \in ClientNames, items \in ClientListings,
          page \in ClientPages, fault \in SessionFaults :
          LET r == GetStreamInfoCall(Client, channel_name, items, page, fault)
          IN  Finish(r, StreamInfoOut(r, channel_name))
    /\ Remember
    /\ UNCHANGED <<scope, env>>

GetStreamUrl ==
    /\ MayLaunch
    /\ \E channel_name \in ClientNames, items \in ClientListings,
          page \in ClientPages, fault \in SessionFaults :
          LET r == GetStreamInfoCall(Client, channel_name, items, page, fault)
          IN  Finish(r, StreamUrlOut(r))
    /\ Remember
    /\ UNCHANGED <<scope, env>>

GetAvailableChannels ==
    /\ MayLaunch
    /\ \E items \in ClientListings, fault \in SessionFaults \ {"click"} :
          LET r == GetAvailableChannelsCall(Client, items, fault)
          IN  Finish(r, ChannelsOut(r))
    /\ Remember
    /\ UNCHANGED <<scope, env>>

Close ==
    /\ LET r == CloseClient(Client) IN Finish(r, CloseOut(r))
    /\ Remember
    /\ UNCHANGED <<scope, env>>

\* __exit__, lines 430-432; exc tells whether the with-block is left by an
\* exception raised in its body
Exit ==
    /\ scope = "in"
    /\ scope' = "out"
    /\ \E exc \in BOOLEAN :
          LET r == CloseClient(Client) IN Finish(r, ExitOut(r, exc))
    /\ Remember
    /\ UNCHANGED env

Next ==
    \/ Enter
    \/ GetStreamInfo
    \/ GetStreamUrl
    \/ GetAvailableChannels
    \/ Close
    \/ Exit

Spec == Init /\ [][Next]_vars


----------------------------------------------------------------------------
(* Properties of the lookup, under SpecFind *)

Looked == out.op = "_find_channel_button"

\* Entries whose trimmed, case-folded label equals the trimmed,
\* case-folded channel name
NormalizedMatches ==
    {i \in 1..Len(env.items) :
        /\ env.items[i].heading
        /\ Lower(Strip(env.items[i].text)) = Lower(Strip(env.name))}

\* C1: whenever the loaded listing holds an entry whose trimmed,
\* case-folded label equals the trimmed, case-folded channel name (a name
\* with at least one visible character), the lookup returns the first such
\* entry.
C1_FirstNormalizedMatch ==
    (Looked /\ Strip(env.name) # <<>> /\ NormalizedMatches # {})
        => out.item = MinOf(NormalizedMatches)

\* C9 as stated: a timed-out wait for the listing is reported as something
\* other than the absent value a fruitless scan returns.
C9_TimeoutDistinctFromNoMatch ==
    (Looked /\ Len(env.items) = 0) => out.item # 0

\* C9 amended: the lookup returns the same absent value when the wait times
\* out and when the loaded listing has no entry whose trimmed, lower-cased
\* label equals the lower-cased name; only the printed timeout diagnostic
\* tells the two apart.
C9_TimeoutAndNoMatchBothAbsent ==
    Looked =>
        /\ Len(env.items) = 0 => (out.item = 0 /\ out.timeoutLogged)
        /\ (/\ Len(env.items) > 0
            /\ \A i \in 1..Len(env.items) :
                  env.items[i].heading =>
                      Lower(Strip(env.items[i].text)) # Lower(env.name))
           => (out.item = 0 /\ ~out.timeoutLogged)

C9_Witness ==
    Looked /\ Len(env.items) = 0 /\ out.item = 0 /\ out.timeoutLogged

----------------------------------------------------------------------------
(* Properties of the extraction, under SpecExtract *)

Extracted == out.op = "_extract_stream_urls"

Tags == {"m3u8", "mp4", "webm"}

HasPlaylistType(source_type) ==
    \E i \in 1..Len(source_type) :
        LowerTok(source_type[i]) \in
            {"application/x-mpegurl", "application/vnd.apple.mpegurl", "m3u8"}

\* The tag C2 describes: declared type, then URL suffix, then host heuristic
ClaimedTag(src, source_type) ==
    IF HasPlaylistType(source_type) THEN "m3u8"
    ELSE IF \E i \in 1..Len(source_type) : source_type[i] = "mp4" THEN "mp4"
    ELSE IF \E i \in 1..Len(source_type) : source_type[i] = "webm" THEN "webm"
    ELSE IF src[Len(src)] = ".m3u8" THEN "m3u8"
    ELSE IF src[Len(src)] = ".mp4" THEN "mp4"
    ELSE IF src[Len(src)] = ".webm" THEN "webm"
    ELSE IF (\E i \in 1..Len(src) : src[i] = D) /\
            (\E i \in 1..Len(src) : src[i] = ".m3u8") THEN "m3u8"
    ELSE "none"

\* The tag of the amended C2: any playlist indication first, then the
\* declared type, then the URL suffix
AmendedTag(src, source_type) ==
    IF \/ HasPlaylistType(source_type)
       \/ src[Len(src)] = ".m3u8"
       \/ (\E i \in 1..Len(src) : src[i] = D) /\
          (\E i \in 1..Len(src) : src[i] = ".m3u8")
    THEN "m3u8"
    ELSE IF \E i \in 1..Len(source_type) : source_type[i] = "mp4" THEN "mp4"
    ELSE IF \E i \in 1..Len(source_type) : source_type[i] = "webm" THEN "webm"
    ELSE IF src[Len(src)] = ".mp4" THEN "mp4"
    ELSE IF src[Len(src)] = ".webm" THEN "webm"
    ELSE "none"

\* Indices of the sources with a URL that carry tag t under ClaimedTag
ClaimedWith(t) ==
    {i \in 1..Len(env.page.sources) :
        /\ env.page.sources[i].src # <<>>
        /\ ClaimedTag(env.page.sources[i].src, env.page.sources[i].type) = t}

\* Indices of the sources with a URL that carry tag t under AmendedTag
TaggedWith(t) ==
    {i \in 1..Len(env.page.sources) :
        /\ env.page.sources[i].src # <<>>
        /\ AmendedTag(env.page.sources[i].src, env.page.sources[i].type) = t}

\* C2 as stated: the tags written by the loop over the sources are those of
\* the fixed order declared type, URL suffix, host heuristic.
C2_TypeThenSuffixThenHost ==
    (Extracted /\ out.run.looped) =>
        \A t \in Tags :
            /\ t \in DOMAIN out.run.loopUrls <=> ClaimedWith(t) # {}
            /\ ClaimedWith(t) # {} =>
                 out.run.loopUrls[t] = env.page.sources[MaxOf(ClaimedWith(t))].src

\* C2 amended: a source with a URL is written under m3u8 whenever its
\* lower-cased declared type holds a playlist token, or its URL ends in
\* .m3u8, or its URL holds the known host together with .m3u8; otherwise
\* under mp4 or webm by its declared type, otherwise under mp4 or webm by
\* its URL suffix.  A playlist indication from the URL thus wins over a
\* declared mp4 or webm type.
C2_PlaylistThenTypeThenSuffix ==
    (Extracted /\ out.run.looped) =>
        \A t \in Tags :
            /\ t \in DOMAIN out.run.loopUrls <=> TaggedWith(t) # {}
            /\ TaggedWith(t) # {} =>
                 out.run.loopUrls[t] = env.page.sources[MaxOf(TaggedWith(t))].src

\* A declared mp4 type on a URL ending in .m3u8 is written under m3u8, and
\* a playlist type on a URL ending in .mp4 is written under m3u8 as well.
C2_Witness ==
    /\ Extracted /\ out.run.looped
    /\ env.page.sources = <<[src |-> uCdnM3u8, type |-> tMp4],
                            [src |-> uMp4, type |-> tMpegUrl]>>
    /\ out.run.loopUrls = [t \in {"m3u8"} |-> uMp4]

\* C3: a returned record has urls, blob_url or sources non-empty, and a run
\* that reaches its final check returns None exactly when all three are
\* empty.
C3_NeverEmptyButPresent ==
    Extracted =>
        /\ out.ret.present =>
             \/ DOMAIN out.ret.info.urls # {}
             \/ out.ret.info.blob_url # <<>>
             \/ Len(out.ret.info.sources) > 0
        /\ out.run.reached =>
             (~out.ret.present <=>
                 /\ DOMAIN out.run.collected.urls = {}
                 /\ out.run.collected.blob_url = <<>>
                 /\ Len(out.run.collected.sources) = 0)

\* A record returned for its unclassified source alone
C3_Witness ==
    /\ Extracted /\ out.ret.present
    /\ DOMAIN out.ret.info.urls = {}
    /\ out.ret.info.blob_url = <<>>
    /\ Len(out.ret.info.sources) > 0

NoSourceWithUrl ==
    \A i \in 1..Len(env.page.sources) : env.page.sources[i].src = <<>>

NoMarkupMatch ==
    \A n \in 1..NumPatterns : FirstMatch(PageSource(env.page), n) = <<>>

\* What the in-page script and the broader search look for: a <source>
\* anywhere in the document whose URL holds .m3u8 or the known host, or any
\* element whose src holds m3u8
NoStreamLikeElement ==
    /\ \A i \in 1..Len(AllSources(env.page)) :
          LET u == AllSources(env.page)[i]
          IN  \A j \in 1..Len(u) : u[j] \notin {".m3u8", "m3u8", D}
    /\ \A i \in 1..Len(env.page.srcElems) :
          LET u == env.page.srcElems[i]
          IN  \A j \in 1..Len(u) : u[j] \notin {".m3u8", "m3u8"}

\* C4 as stated: without child sources with a URL, without a blob reference
\* and without a markup pattern match, the extraction returns None.
C4_AbsentWithoutSourcesBlobMarkup ==
    (Extracted /\ NoSourceWithUrl /\ env.page.blob = <<>> /\ NoMarkupMatch)
        => ~out.ret.present

\* C4 amended: without child sources with a URL, without a blob reference,
\* without a markup pattern match, and without any element the in-page
\* script or the broader search would pick (a <source> anywhere in the
\* document whose URL holds .m3u8 or the known host, an element whose src
\* holds m3u8), the extraction returns None.
C4_AbsentWithoutAnyStreamLikeElement ==
    (/\ Extracted /\ NoSourceWithUrl /\ env.page.blob = <<>>
     /\ NoMarkupMatch /\ NoStreamLikeElement)
        => ~out.ret.present

\* A page with a poster, playback attributes and an unrelated <source>
\* elsewhere, whose run reaches the final check and returns None
C4_Witness ==
    /\ Extracted /\ NoSourceWithUrl /\ env.page.blob = <<>>
    /\ NoMarkupMatch /\ NoStreamLikeElement
    /\ out.run.reached /\ ~out.ret.present
    /\ out.run.collected.poster # <<>>
    /\ Len(env.page.others) > 0

\* C10: for every tag under which at least one child source is written, the
\* urls entry of the returned record is the URL of the last such source.
C10_LastSourceWins ==
    (Extracted /\ out.run.reached) =>
        \A t \in Tags :
            TaggedWith(t) # {} =>
                /\ out.ret.present
                /\ t \in DOMAIN out.ret.info.urls
                /\ out.ret.info.urls[t] = env.page.sources[MaxOf(TaggedWith(t))].src

\* Two sources with different URLs written under the same tag
C10_Witness ==
    /\ Extracted /\ out.run.reached
    /\ \E t \in Tags :
          /\ Cardinality(TaggedWith(t)) >= 2
          /\ env.page.sources[MinOf(TaggedWith(t))].src
                 # env.page.sources[MaxOf(TaggedWith(t))].src
          /\ out.ret.info.urls[t] = env.page.sources[MaxOf(TaggedWith(t))].src

----------------------------------------------------------------------------
(* Properties of the client, under Spec *)

InfoCalls == {"get_stream_info", "get_stream_url"}

\* C5 as stated: a browser failure met during get_stream_info or
\* get_available_channels reaches the caller as an exception.
C5_SessionFaultPropagates ==
    (out.op \in {"get_stream_info", "get_available_channels"} /\ out.faulted)
        => out.raised

\* C5 amended: a browser failure met during get_stream_info or
\* get_available_channels never reaches the caller as an exception: the
\* call returns None, respectively the empty list, as it does for "not
\* found" and timeouts.
C5_SessionFaultReturnsAbsent ==
    /\ (out.op = "get_stream_info" /\ out.faulted)
           => (~out.raised /\ ~out.ret.present)
    /\ (out.op = "get_available_channels" /\ out.faulted)
           => (~out.raised /\ out.channels = <<>>)

\* A failure after the browser was started, swallowed by get_stream_info
C5_Witness ==
    /\ out.op = "get_stream_info" /\ out.faulted
    /\ out.events = <<"launch", "navigate", "lookup", "click">>
    /\ ~out.raised /\ ~out.ret.present /\ driver = "live"

\* The keys the flattened view is to hold for the record info
LegacyKeys(info) ==
    DOMAIN info.urls
    \cup (IF info.blob_url # <<>> THEN {"blob_url"} ELSE {})
    \cup (IF info.poster # <<>> THEN {"poster_url"} ELSE {})

\* C6: get_stream_url returns exactly the urls entries plus blob_url and
\* poster_url when set, and None when that mapping is empty or when
\* get_stream_info returned None.
C6_LegacyViewExact ==
    out.op = "get_stream_url" =>
        IF out.stream.present /\ LegacyKeys(out.stream.info) # {}
        THEN /\ out.ret.present
             /\ DOMAIN out.ret.map = LegacyKeys(out.stream.info)
             /\ \A k \in DOMAIN out.ret.map :
                   out.ret.map[k] =
                       CASE k = "blob_url" -> out.stream.info.blob_url
                         [] k = "poster_url" -> out.stream.info.poster
                         [] OTHER -> out.stream.info.urls[k]
        ELSE ~out.ret.present

\* urls = {m3u8: X}, a poster and no blob give {m3u8: X, poster_url: P}
C6_Witness ==
    /\ out.op = "get_stream_url" /\ out.stream.present
    /\ DOMAIN out.stream.info.urls = {"m3u8"}
    /\ out.stream.info.blob_url = <<>>
    /\ out.ret.present
    /\ out.ret.map = [k \in {"m3u8", "poster_url"} |->
                         IF k = "m3u8" THEN uMemfs ELSE uPoster2]

\* C7: two close() calls in a row do not fault, quit the browser at most
\* once between them, and leave the client without a browser.
C7_CloseTwice ==
    (out.op = "close" /\ prev.op = "close") =>
        /\ ~out.raised /\ ~prev.raised
        /\ out.quit + prev.quit <= 1
        /\ driver = None
        /\ browsers = 0

\* An open client closed twice
C7_Witness ==
    /\ out.op = "close" /\ prev.op = "close"
    /\ prev.quit = 1 /\ out.quit = 0
    /\ launched >= 1 /\ driver = None /\ browsers = 0

\* C8: whenever the with-block has just been left, by a return or by an
\* exception, every browser the client launched has been quit and none is
\* live.
C8_ScopeExitReleasesBrowser ==
    out.op = "__exit__" =>
        (driver = None /\ browsers = 0 /\ quits = launched)

\* The with-block left by an exception with a browser running
C8_Witness ==
    /\ out.op = "__exit__" /\ out.exc /\ out.quit = 1
    /\ prev.op \in InfoCalls
    /\ driver = None /\ browsers = 0

----------------------------------------------------------------------------
(* Properties of the page-text fallback, under SpecExtract *)

\* A URL of the form https://<known-origin>/memfs/<name>.m3u8
MemfsForm(u) ==
    /\ Len(u) >= 5
    /\ u[1] = H /\ u[2] = D /\ u[3] = "/memfs/"
    /\ u[Len(u)] = ".m3u8"
    /\ \A j \in 1..Len(u) : u[j] # " "

MaxFragLen(markup) ==
    IF markup = <<>> THEN 0
    ELSE MaxOf({Len(markup[f].toks) : f \in 1..Len(markup)})

\* Where the markup holds such a URL: fragment f, tokens i..k
MemfsOccurrences(markup) ==
    {o \in (1..Len(markup)) \X (1..MaxFragLen(markup)) \X (1..MaxFragLen(markup)) :
        /\ o[2] <= o[3] /\ o[3] <= Len(markup[o[1]].toks)
        /\ MemfsForm(SubSeq(markup[o[1]].toks, o[2], o[3]))}

\* The leftmost occurrence, taken as long as it goes
FirstOccurrence(occ) ==
    CHOOSE o \in occ : \A p \in occ :
        \/ o[1] < p[1]
        \/ o[1] = p[1] /\ o[2] < p[2]
        \/ o[1] = p[1] /\ o[2] = p[2] /\ o[3] >= p[3]

FirstMemfsUrl(markup) ==
    LET o == FirstOccurrence(MemfsOccurrences(markup))
    IN  SubSeq(markup[o[1]].toks, o[2], o[3])

DomM3u8 == "m3u8" \in DOMAIN out.run.loopUrls

\* The markup was read and holds a memfs playlist URL
MarkupHoldsMemfs ==
    /\ env.page.fault # "page_source"
    /\ MemfsOccurrences(PageSource(env.page)) # {}

InstalledM3u8(url) ==
    /\ "m3u8" \in DOMAIN out.run.collected.urls
    /\ out.run.collected.urls["m3u8"] = url
    /\ out.run.reached =>
          /\ out.ret.present
          /\ out.ret.info.urls["m3u8"] = url

\* C11: once the loop over the <source> children has ended, an m3u8 entry
\* written by the loop is the m3u8 entry of the result (the fallback does not
\* replace it); and when the loop wrote none and the markup read from the
\* browser holds a URL https://<known-origin>/memfs/<name>.m3u8, the
\* fallback returns the first such URL of the markup, without executing the
\* in-page script, and that URL is the m3u8 entry of the result.
C11_FallbackOnlyWithoutDomM3u8 ==
    (Extracted /\ out.run.looped) =>
        /\ DomM3u8 => InstalledM3u8(out.run.loopUrls["m3u8"])
        /\ (~DomM3u8 /\ MarkupHoldsMemfs) =>
              /\ PageSearch(env.page).url = FirstMemfsUrl(PageSource(env.page))
              /\ ~PageSearch(env.page).script
              /\ InstalledM3u8(FirstMemfsUrl(PageSource(env.page)))

\* A page whose <source> children give no m3u8 entry and whose inline text
\* holds a memfs playlist URL with a query string, after another playlist
\* URL: the result carries the memfs URL up to .m3u8
C11_Witness ==
    /\ Extracted /\ out.run.reached /\ ~DomM3u8 /\ MarkupHoldsMemfs
    /\ env.page.inline = <<Frag("raw", uCdnM3u8Q), Frag("dq", uMemfsQ)>>
    /\ out.ret.present
    /\ out.ret.info.urls["m3u8"] = uMemfs

----------------------------------------------------------------------------
(* Properties of the optional steps, under SpecExtract *)

\* The player container appeared and the browser itself did not fail
ContainerAppeared == env.page.fault \notin {"timeout", "session"}

\* The one step that failed, if any, is one of: the <video> is missing
\* after the container's poster was read, an attribute read on the last of
\* the <source> children raises, the read of the dimensions raises
OptionalStepFailed ==
    \/ ~env.page.video /\ env.page.fault = "none" /\ Truthy(env.page.cposter)
    \/ env.page.video /\ env.page.fault = "source" /\ Len(env.page.sources) > 1
    \/ env.page.video /\ env.page.fault = "dims"

\* C12: when the container has appeared and one optional step fails, what
\* was collected up to the failure is not discarded (if it holds a URL, a
\* blob reference or a source, the record is returned and carries it, the
\* poster included), and the steps after the failed one still run (the
\* page-text fallback still installs a playlist URL found in the markup).
C12_OptionalStepsIndependent ==
    (Extracted /\ ContainerAppeared /\ OptionalStepFailed) =>
        /\ HasUsefulUrls(out.run.collected) =>
              /\ out.ret.present
              /\ out.ret.info.poster = out.run.collected.poster
              /\ out.ret.info.blob_url = out.run.collected.blob_url
              /\ \A i \in 1..Len(out.run.collected.sources) :
                    /\ i <= Len(out.ret.info.sources)
                    /\ out.ret.info.sources[i] = out.run.collected.sources[i]
        /\ ("m3u8" \notin DOMAIN out.run.collected.urls
               /\ Truthy(PatternSearch(PageSource(env.page)))) =>
              /\ out.ret.present
              /\ "m3u8" \in DOMAIN out.ret.info.urls

----------------------------------------------------------------------------
(* Properties of the order of steps in get_stream_info, under Spec *)

StepOrder == <<"navigate", "lookup", "click", "sleep", "extract", "stamp">>

\* The steps taken once the driver is there
StepsTaken ==
    IF out.events # <<>> /\ Head(out.events) = "launch"
    THEN Tail(out.events)
    ELSE out.events

Took(step) == \E i \in 1..Len(StepsTaken) : StepsTaken[i] = step

\* C13: the steps of a get_stream_info call are an initial part of
\* navigate, lookup, click, sleep, extract, stamp; the click is made on the
\* entry the lookup returned; when the lookup returns None there is no
\* click and no extraction and the call returns None; and a returned
\* record is stamped with the caller's channel_name as given.
C13_StepOrder ==
    out.op = "get_stream_info" =>
        /\ Len(StepsTaken) <= Len(StepOrder)
        /\ StepsTaken = SubSeq(StepOrder, 1, Len(StepsTaken))
        /\ Took("click") => (out.found # 0 /\ out.clicked = out.found)
        /\ ~Took("click") => out.clicked = 0
        /\ (Took("lookup") /\ out.found = 0) =>
              (~Took("click") /\ ~Took("extract") /\ ~out.ret.present)
        /\ Took("stamp") <=> out.ret.present
        /\ out.ret.present => out.ret.channel_name = out.channel_name

\* A call that went through every step and stamped the name "A" as given,
\* where the clicked entry is labelled " a"
C13_Witness ==
    /\ out.op = "get_stream_info"
    /\ StepsTaken = StepOrder
    /\ out.clicked = 2
    /\ out.channel_name = <<"A">>
    /\ out.ret.present /\ out.ret.channel_name = <<"A">>

=============================================================================
